---- MODULE Spec2Model ----
(***************************************************************************)
(* functic: typed callable tools for an LLM conversation engine.           *)
(*                                                                         *)
(* Spec        the run resolver of scripts/assistant_run.py: the           *)
(*             EventHandler that receives streamed run events, executes    *)
(*             the tool calls of an action-required event and submits the  *)
(*             outputs through a freshly created, nested handler.          *)
(* FairSpec    Spec with the fairness of a stream that keeps delivering.   *)
(* EnsureSpec  ensure_assistant of utils/openai_utils/ensure.py over a     *)
(*             cache backend and the external assistants listing.          *)
(* AppSpec     the HTTP service of functic/app.py: lifespan builds the     *)
(*             registry from the configured modules, then the endpoints    *)
(*             answer requests against it.                                 *)
(* ModelSpec   FuncticBaseModel of functic/_functic.py as a class: the     *)
(*             derived schema representations and from_args_str.           *)
(* ConcurrentSpec  ensure_assistant called once by each of several runs,   *)
(*             its cache read, its requests and its cache write            *)
(*             interleaved with those of the others.                       *)
(***************************************************************************)
EXTENDS Naturals, Integers, Sequences, FiniteSets, TLC

VARIABLES
    status,        \* resolver state: STREAMING, ACTION_REQUIRED, SUBMITTING, DONE, FAILED
    depth,         \* number of nested EventHandler objects whose stream is open
    current_run,   \* AssistantEventHandler.current_run of the innermost handler
    batch,         \* required_action.submit_tool_outputs.tool_calls being handled
    idx,           \* position of the for loop of handle_requires_action
    tool_outputs,  \* the local list tool_outputs of handle_requires_action
    executed,      \* call ids whose callable was invoked for this batch, in order
    raised,        \* call ids of this batch whose callable raised
    submission,    \* what was passed to submit_tool_outputs_stream for this batch
    error,         \* the exception that left until_done, "none" if none
    cancelled,     \* the external run has been cancelled
    nReceived,     \* action-required events that carried a required_action
    nSubmitted,    \* submit_tool_outputs_stream calls made
    cache,         \* cache backend content: key -> entry, or NoEntry
    cacheKind,     \* "none" (cache=None), "diskcache" or "redis"
    now,           \* wall clock in seconds
    calls,         \* ensure_assistant calls made so far, each with its result
    listing,       \* the assistants the external service lists, in order
    app_settings,  \* AppSettings.FUNCTIC_FUNCTIONS: module names, in order
    phase,         \* "startup" before lifespan has run, "serving" after
    functic_functions,  \* app.state.functic_functions, in insertion order
    warnings,      \* function names passed to logger.warning by lifespan
    registrations, \* what lifespan inserted, in order: module, class, name
    reply,         \* the answer to the last request
    req_parsed,    \* call ids given to from_args_str by the last request
    req_executed,  \* call ids whose execute() ran in the last request
    tool_def,      \* a FuncticBaseModel subclass: its config and model fields
    derived,       \* the class properties as last read
    parses,        \* from_args_str calls made: the string and the outcome
    runs,          \* concurrent ensure_assistant calls: position and locals of each
    run_id,        \* the local run_id of on_event: event.data.id of the last action event
    lists,         \* the message lists alive; lists[1] is the one of the caller
    handler_messages  \* for each open handler, outermost first, which list is its self.messages

rvars == <<status, depth, current_run, batch, idx, tool_outputs, executed, raised,
           submission, error, cancelled, nReceived, nSubmitted,
           run_id, lists, handler_messages>>
hvars == <<run_id, lists, handler_messages>>
evars == <<cache, cacheKind, now, calls, listing>>
avars == <<app_settings, phase, functic_functions, warnings, registrations, reply,
           req_parsed, req_executed>>
mvars == <<tool_def, derived, parses>>
vars == <<status, depth, current_run, batch, idx, tool_outputs, executed, raised,
          submission, error, cancelled, nReceived, nSubmitted,
          cache, cacheKind, now, calls, listing,
          app_settings, phase, functic_functions, warnings, registrations, reply,
          req_parsed, req_executed, tool_def, derived, parses, runs,
          run_id, lists, handler_messages>>

(***************************************************************************)
(* Bounds                                                                  *)
(***************************************************************************)
MaxBatch == 2      \* tool calls per action-required event
MaxActions == 2    \* action-required events per run
MaxCalls == 2      \* ensure_assistant calls
MaxTime == 2       \* seconds the clock may advance
MaxModules == 2    \* module names in FUNCTIC_FUNCTIONS
MaxParses == 2     \* from_args_str calls
MaxRuns == 2       \* runs that call ensure_assistant concurrently
MaxMessages == 1   \* messages the assistant completes in a run

None == "None"

(***************************************************************************)
(* Tools: FuncticConfig and the registry of the script                     *)
(***************************************************************************)
\* FuncticConfig.error_content default
DefaultErrorContent == "The service is currently unavailable. Please try again later."

\* FUNCTION_TOOLS: tool.config.name -> tool, of the three imported tools
FUNCTION_TOOLS ==
    {"get_weather_forecast_daily", "get_weather_forecast_hourly", "get_maps_geocode"}

\* the config (FuncticConfig) of a registered tool
ConfigOf(name) ==
    [name |-> name,
     error_content |-> IF name = "get_maps_geocode"
                       THEN "Geocoding failed."
                       ELSE DefaultErrorContent]

\* names the engine may put in a tool call: the registered ones and one that is not
RequestNames == {"get_weather_forecast_daily", "get_maps_geocode", "get_stock_price"}

(***************************************************************************)
(* Argument parsing: FuncticBaseModel.from_args_str                        *)
(***************************************************************************)
\* raw argument strings the engine may send
ArgValid == "{\"base\": \"USD\"}"
ArgTruncated == "{\"base\": \"USD\""
ArgBadType == "{\"base\": 42}"
ArgNotEnum == "{\"base\": \"XXX\"}"
ArgEmptyObject == "{}"
ArgList == "[]"
RawArgs ==
    {"", " ", ArgEmptyObject, ArgValid, ArgTruncated, ArgBadType, ArgNotEnum, ArgList}

\* json_repair.repair_json: well-formed text is kept, a missing closing brace
\* is added, text holding no JSON value at all becomes the empty string
repair_json(s) ==
    CASE s = ArgTruncated -> ArgValid
      [] s = " " -> ""
      [] OTHER -> s

\* json.loads: the decoded value, or the JSONDecodeError it raises
json_loads(s) ==
    CASE s = ArgEmptyObject -> [exc |-> None, kind |-> "dict", base |-> "absent"]
      [] s = ArgValid -> [exc |-> None, kind |-> "dict", base |-> "symbol"]
      [] s = ArgBadType -> [exc |-> None, kind |-> "dict", base |-> "int"]
      [] s = ArgNotEnum -> [exc |-> None, kind |-> "dict", base |-> "other_str"]
      [] s = ArgList -> [exc |-> None, kind |-> "list", base |-> "absent"]
      [] OTHER -> [exc |-> "JSONDecodeError", kind |-> None, base |-> "absent"]

\* the python value {} of the else branch of from_args_str
EmptyDict == [exc |-> None, kind |-> "dict", base |-> "absent"]

\* cls.model_validate against an argument schema like that of GetCurrencies:
\* base is an enumerated string with a default; TRUE when the value conforms
model_validate(name, value) ==
    value.kind = "dict" /\ value.base \in {"absent", "symbol"}

\* from_args_str: the exception raised ("none" when a model instance is built)
from_args_str(name, args_str) ==
    LET func_kwargs == IF args_str # "" THEN json_loads(repair_json(args_str))
                       ELSE EmptyDict
    IN  IF func_kwargs.exc # None THEN func_kwargs.exc
        ELSE IF model_validate(name, func_kwargs) THEN "none"
        ELSE "ValidationError"

(***************************************************************************)
(* Execution and rendering: sync_execute, FuncticParser                    *)
(***************************************************************************)
\* what the underlying callable of a tool returns when it does not raise
ResultOf(name) == [py |-> "obj", v |-> name \o "_response"]

parse_content_Repr(response) == "<" \o response.v \o ">"

\* FuncticParser.parse_content: str(response)
parse_content(response) ==
    IF response.py = "str" THEN response.v ELSE "<" \o response.v \o ">"

\* sync_execute: the content kept on the instance; an exception of the callable
\* is contained and replaced by config.error_content
sync_execute(name, raises) ==
    IF raises THEN [py |-> "str", v |-> ConfigOf(name).error_content]
    ELSE ResultOf(name)

parse_function_return_FirstId(response, tool_call_id) ==
    [output |-> parse_content(response), tool_call_id |-> "call_1_1"]

\* FuncticParser.parse_function_return_as_assistant_tool_output(_param)
parse_function_return_as_assistant_tool_output(response, tool_call_id) ==
    [output |-> parse_content(response), tool_call_id |-> tool_call_id]

\* set_tool_call_id(tool.id) followed by tool_output_param: the instance renders
\* the content it holds under the call id it was given
tool_output_param(content, tool_call_id) ==
    parse_function_return_as_assistant_tool_output(content, tool_call_id)

(***************************************************************************)
(* The engine's events                                                     *)
(***************************************************************************)
RunId == "run_1"
ThreadId == "thread_1"

\* the opaque id of the i-th tool call of the e-th action-required event
CallId(e, i) == "call_" \o ToString(e) \o "_" \o ToString(i)

\* the arguments the engine sends in a run: conforming, and of the wrong type
ResolverArgs == {ArgValid, ArgBadType}

RECURSIVE BatchesOfLen(_, _)
BatchesOfLen(e, n) ==
    IF n = 0 THEN {<<>>}
    ELSE {Append(b, [id |-> CallId(e, n),
                     function |-> [name |-> nm, arguments |-> a]]) :
            b \in BatchesOfLen(e, n - 1), nm \in RequestNames, a \in ResolverArgs}

\* tool_calls of the e-th action-required event: at least one call
Batches(e) == UNION {BatchesOfLen(e, n) : n \in 1..MaxBatch}

NoSubmission == [made |-> FALSE, thread_id |-> None, run_id |-> None, tool_outputs |-> <<>>]

Range(s) == {s[i] : i \in 1..Len(s)}

(***************************************************************************)
(* Run resolver: EventHandler of scripts/assistant_run.py                  *)
(***************************************************************************)
\* the message main puts on its list before it creates the handler
UserMessage == "msg_user"

\* EventHandler.__init__: self.messages = messages or []. The list passed in
\* is kept when it holds something; an empty one is falsy and a new list is made
NewHandler(ls, passed) ==
    IF ls[passed] # <<>>
    THEN [lists |-> ls, messages |-> passed]
    ELSE [lists |-> Append(ls, <<>>), messages |-> Len(ls) + 1]

\* messages completed so far, over all lists
Completed == {m \in UNION {Range(lists[i]) : i \in 1..Len(lists)} : m # UserMessage}

\* the caller makes its list, with the user message as main does or empty,
\* and creates the first handler with it
InitMessages ==
    /\ run_id = None
    /\ \E thread_messages \in {<<>>, <<UserMessage>>} :
          LET created == NewHandler(<<thread_messages>>, 1)
          IN  /\ lists = created.lists
              /\ handler_messages = <<created.messages>>

\* no run is made
IdleMessages ==
    /\ run_id = None
    /\ lists = <<<<UserMessage>>>>
    /\ handler_messages = <<1>>

InitResolver ==
    /\ status = "STREAMING"     \* main: runs.stream(...).until_done()
    /\ depth = 1
    /\ current_run = None
    /\ batch = <<>>
    /\ idx = 1
    /\ tool_outputs = <<>>
    /\ executed = <<>>
    /\ raised = {}
    /\ submission = NoSubmission
    /\ error = "none"
    /\ cancelled = FALSE
    /\ nReceived = 0
    /\ nSubmitted = 0

\* an exception raised inside on_event leaves every enclosing until_done
Raise(exc) ==
    /\ status' = "FAILED"
    /\ error' = exc

RunStatusEvent_OtherRun ==
    /\ status = "STREAMING"
    /\ current_run' = "run_0"
    /\ UNCHANGED <<status, depth, batch, idx, tool_outputs, executed, raised, submission,
                   error, cancelled, nReceived, nSubmitted>>
    /\ UNCHANGED hvars
    /\ UNCHANGED <<evars, avars, mvars, runs>>

\* thread.run.created / queued / in_progress: on_event ignores the event and
\* the stream helper then records event.data as current_run
RunStatusEvent ==
    /\ status = "STREAMING"
    /\ current_run' = RunId
    /\ UNCHANGED <<status, depth, batch, idx, tool_outputs, executed, raised, submission,
                   error, cancelled, nReceived, nSubmitted>>
    /\ UNCHANGED hvars
    /\ UNCHANGED <<evars, avars, mvars, runs>>

\* thread.run.requires_action whose data.required_action is None:
\* handle_requires_action returns at once; current_run is recorded afterwards
RequiresActionNone ==
    /\ status = "STREAMING"
    /\ ~cancelled
    /\ current_run' = RunId
    /\ run_id' = RunId
    /\ UNCHANGED <<status, depth, batch, idx, tool_outputs, executed, raised, submission,
                   error, cancelled, nReceived, nSubmitted>>
    /\ UNCHANGED <<lists, handler_messages>>
    /\ UNCHANGED <<evars, avars, mvars, runs>>

\* thread.run.requires_action: on_event enters handle_requires_action, which
\* starts with an empty tool_outputs list
RequiresActionEvent ==
    /\ status = "STREAMING"
    /\ ~cancelled
    /\ nReceived < MaxActions
    /\ \E b \in Batches(nReceived + 1) :
          /\ batch' = b
          /\ idx' = 1
          /\ tool_outputs' = <<>>
          /\ executed' = <<>>
          /\ raised' = {}
          /\ submission' = NoSubmission
          /\ nReceived' = nReceived + 1
          /\ status' = "ACTION_REQUIRED"
    /\ run_id' = RunId
    /\ UNCHANGED <<depth, current_run, error, cancelled, nSubmitted>>
    /\ UNCHANGED <<lists, handler_messages>>
    /\ UNCHANGED <<evars, avars, mvars, runs>>

Registered_Any(name) == TRUE

\* "tool.function.name not in FUNCTION_TOOLS" is false
Registered(name) == name \in FUNCTION_TOOLS

NextIndex_Skip(i) == i + 2

\* the for loop goes on to the next tool call
NextIndex(i) == i + 1

AppendOutput_Front(outputs, o) == <<o>> \o outputs

\* tool_outputs.append(functic_model.tool_output_param)
AppendOutput(outputs, o) == Append(outputs, o)

\* one iteration of the for loop of handle_requires_action
ProcessToolCall ==
    /\ status = "ACTION_REQUIRED"
    /\ idx <= Len(batch)
    /\ LET tool == batch[idx] IN
       IF ~Registered(tool.function.name)
       THEN /\ Raise("ValueError")
            /\ UNCHANGED <<idx, tool_outputs, executed, raised>>
       ELSE IF from_args_str(tool.function.name, tool.function.arguments) # "none"
       THEN /\ Raise(from_args_str(tool.function.name, tool.function.arguments))
            /\ UNCHANGED <<idx, tool_outputs, executed, raised>>
       ELSE \E raises \in BOOLEAN :
            /\ executed' = Append(executed, tool.id)
            /\ raised' = IF raises THEN raised \cup {tool.id} ELSE raised
            /\ tool_outputs' = AppendOutput(tool_outputs,
                   tool_output_param(sync_execute(tool.function.name, raises),
                                     tool.id))
            /\ idx' = NextIndex(idx)
            /\ UNCHANGED <<status, error>>
    /\ UNCHANGED <<depth, current_run, batch, submission, cancelled, nReceived,
                   nSubmitted>>
    /\ UNCHANGED hvars
    /\ UNCHANGED <<evars, avars, mvars, runs>>

\* submit_tool_outputs when current_run is None: it returns without a call,
\* on_event returns and the stream of this handler goes on
SubmitSkipped ==
    /\ status = "ACTION_REQUIRED"
    /\ idx > Len(batch)
    /\ current_run = None
    /\ status' = "STREAMING"
    /\ current_run' = RunId
    /\ UNCHANGED <<depth, batch, idx, tool_outputs, executed, raised, submission, error,
                   cancelled, nReceived, nSubmitted>>
    /\ UNCHANGED hvars
    /\ UNCHANGED <<evars, avars, mvars, runs>>

\* submit_tool_outputs: the call of submit_tool_outputs_stream
SubmitToolOutputs ==
    /\ status = "ACTION_REQUIRED"
    /\ idx > Len(batch)
    /\ current_run # None
    /\ submission' = [made |-> TRUE, thread_id |-> ThreadId, run_id |-> current_run,
                      tool_outputs |-> tool_outputs]
    /\ nSubmitted' = nSubmitted + 1
    /\ status' = "SUBMITTING"
    /\ UNCHANGED <<depth, current_run, batch, idx, tool_outputs, executed, raised,
                   error, cancelled, nReceived>>
    /\ UNCHANGED hvars
    /\ UNCHANGED <<evars, avars, mvars, runs>>

\* the service accepts the outputs: a fresh EventHandler consumes the new stream
StreamResumed ==
    /\ status = "SUBMITTING"
    /\ ~cancelled
    /\ status' = "STREAMING"
    /\ depth' = depth + 1
    /\ current_run' = None
    /\ LET created == NewHandler(lists, handler_messages[Len(handler_messages)])
       IN  /\ lists' = created.lists
           /\ handler_messages' = Append(handler_messages, created.messages)
    /\ UNCHANGED <<batch, idx, tool_outputs, executed, raised, submission, error,
                   cancelled, nReceived, nSubmitted>>
    /\ UNCHANGED run_id
    /\ UNCHANGED <<evars, avars, mvars, runs>>

UpstreamError_Retry ==
    /\ status = "SUBMITTING"
    /\ status' = "ACTION_REQUIRED"
    /\ UNCHANGED <<depth, current_run, batch, idx, tool_outputs, executed, raised,
                   submission, error, cancelled, nReceived, nSubmitted>>
    /\ UNCHANGED hvars
    /\ UNCHANGED <<evars, avars, mvars, runs>>

\* the service answers the submission with an error (unavailable, or the run
\* no longer accepts outputs): the API error leaves submit_tool_outputs
UpstreamError ==
    /\ status = "SUBMITTING"
    /\ Raise("APIError")
    /\ UNCHANGED <<depth, current_run, batch, idx, tool_outputs, executed, raised,
                   submission, cancelled, nReceived, nSubmitted>>
    /\ UNCHANGED hvars
    /\ UNCHANGED <<evars, avars, mvars, runs>>

\* thread.run.completed / failed / cancelled / expired: on_event ignores it and
\* the stream ends; until_done returns, in main or in the enclosing
\* submit_tool_outputs, whose handler then records current_run and streams on
TerminalEvent ==
    /\ status = "STREAMING"
    /\ IF depth = 1
       THEN /\ status' = "DONE"
            /\ UNCHANGED <<depth, current_run, handler_messages>>
       ELSE /\ depth' = depth - 1
            /\ current_run' = RunId
            /\ handler_messages' = SubSeq(handler_messages, 1, Len(handler_messages) - 1)
            /\ UNCHANGED status
    /\ UNCHANGED <<batch, idx, tool_outputs, executed, raised, submission, error,
                   cancelled, nReceived, nSubmitted>>
    /\ UNCHANGED <<run_id, lists>>
    /\ UNCHANGED <<evars, avars, mvars, runs>>

\* thread.message.completed: on_message_done appends to self.messages of the
\* handler that consumes the stream
MessageDone ==
    /\ status = "STREAMING"
    /\ Cardinality(Completed) < MaxMessages
    /\ lists' = [lists EXCEPT ![handler_messages[Len(handler_messages)]] =
                    Append(@, "msg_" \o ToString(Cardinality(Completed) + 1))]
    /\ UNCHANGED <<status, depth, current_run, batch, idx, tool_outputs, executed,
                   raised, submission, error, cancelled, nReceived, nSubmitted>>
    /\ UNCHANGED <<run_id, handler_messages>>
    /\ UNCHANGED <<evars, avars, mvars, runs>>

\* the external run is cancelled by someone else while the resolver is at work
CancelRun ==
    /\ status \in {"STREAMING", "ACTION_REQUIRED", "SUBMITTING"}
    /\ ~cancelled
    /\ cancelled' = TRUE
    /\ UNCHANGED <<status, depth, current_run, batch, idx, tool_outputs, executed,
                   raised, submission, error, nReceived, nSubmitted>>
    /\ UNCHANGED hvars
    /\ UNCHANGED <<evars, avars, mvars, runs>>

Next ==
    \/ RunStatusEvent
    \/ RequiresActionNone
    \/ RequiresActionEvent
    \/ ProcessToolCall
    \/ SubmitSkipped
    \/ SubmitToolOutputs
    \/ StreamResumed
    \/ UpstreamError
    \/ TerminalEvent
    \/ MessageDone
    \/ CancelRun

(***************************************************************************)
(* Properties of the run resolver                                          *)
(***************************************************************************)
Count(seq, x) == Cardinality({i \in 1..Len(seq) : seq[i] = x})
BatchIds == {batch[i].id : i \in 1..Len(batch)}
Terminated == status \in {"DONE", "FAILED"}
\* the handler has left the batch it received: it is not in the loop any more
BatchLeft == nReceived > 0 /\ status # "ACTION_REQUIRED"
\* the for loop ran to its end
LoopFinished == nReceived > 0 /\ idx > Len(batch)
UnknownAt(i) == i \in 1..Len(batch) /\ batch[i].function.name \notin FUNCTION_TOOLS
BadArgsAt(i) ==
    /\ i \in 1..Len(batch)
    /\ from_args_str(batch[i].function.name, batch[i].function.arguments) # "none"

C2_SubmissionEchoesCallIds ==
    submission.made =>
        /\ {submission.tool_outputs[i].tool_call_id :
                i \in 1..Len(submission.tool_outputs)} = BatchIds
        /\ Len(submission.tool_outputs) = Len(batch)
        /\ \A i \in 1..Len(batch) :
              \E j \in 1..Len(submission.tool_outputs) :
                  /\ submission.tool_outputs[j].tool_call_id = batch[i].id
                  /\ submission.tool_outputs[j].output \in
                        {parse_content(ResultOf(batch[i].function.name)),
                         ConfigOf(batch[i].function.name).error_content}

C2_Witness ==
    /\ submission.made
    /\ Len(batch) = 2
    /\ batch[1].function.name # batch[2].function.name

\* C3: a batch holding a call to an unregistered tool is never submitted,
\* wherever the call stands: the handler leaves the loop only by failing, and
\* no call at or after the first unknown one is executed.
C3_UnknownToolFailsBatch ==
    \A k \in 1..Len(batch) :
        (nReceived > 0 /\ UnknownAt(k)) =>
            /\ ~submission.made
            /\ status \in {"ACTION_REQUIRED", "FAILED"}
            /\ idx <= k
            /\ batch[k].id \notin Range(executed)

C3_Witness ==
    /\ status = "FAILED"
    /\ error = "ValueError"
    /\ Len(batch) = 2
    /\ UnknownAt(2)
    /\ executed = <<batch[1].id>>

\* C4 as stated: arguments that cannot be parsed or validated never fail the
\* run; the call gets the tool's error text and the batch goes on.
C4_ArgumentFailureContained ==
    /\ error \notin {"ValidationError", "JSONDecodeError"}
    /\ \A i \in 1..Len(batch) :
          (LoopFinished /\ BadArgsAt(i)) =>
              tool_outputs[i].output = ConfigOf(batch[i].function.name).error_content

\* C5: the output of a call whose callable raised is the tool's error_content,
\* the resolver went on past that call, and no failure of the run comes from a
\* callable.
C5_CallableFailureContained ==
    /\ \A i \in 1..Len(batch) :
          batch[i].id \in raised =>
              /\ i < idx
              /\ i <= Len(tool_outputs)
              /\ tool_outputs[i].tool_call_id = batch[i].id
              /\ tool_outputs[i].output = ConfigOf(batch[i].function.name).error_content
    /\ error \in {"none", "ValueError", "ValidationError", "JSONDecodeError", "APIError"}

C5_Witness ==
    /\ Len(batch) = 2
    /\ batch[1].id \in raised
    /\ batch[2].id \notin raised
    /\ Len(executed) = 2
    /\ submission.made
    /\ batch[1].function.name = "get_maps_geocode"

\* C6 as stated: once the run is cancelled no further tool call is executed,
\* no outputs are submitted, and the resolver does not end as done.
C6_CancelStopsResolver ==
    [][cancelled => /\ Len(executed') <= Len(executed)
                    /\ nSubmitted' = nSubmitted
                    /\ status' # "DONE"]_vars

\* C7 as stated (its safety half): the resolver is never done while an
\* action-required batch it received has not been submitted.
C7_NeverDoneWithUnsubmittedBatch ==
    status = "DONE" => nSubmitted = nReceived

\* C7 (its termination half): every run ends in DONE or FAILED.
C7_Termination == <>Terminated

\* C8 as stated: when the loop of a non-empty batch ran to its end, the
\* results are submitted, and the submitted list is not empty.
C8_ResultsAlwaysSubmitted ==
    (LoopFinished /\ BatchLeft /\ Len(batch) > 0) =>
        /\ submission.made
        /\ Len(submission.tool_outputs) > 0

\* C19 as stated: a batch whose loop ran to its end is submitted in one call
\* that carries one output per tool call of the batch; a submission is made
\* only when every call of the batch has been executed, and never more than
\* one per action-required event.
C19_OneSubmissionAfterLastCall ==
    /\ (LoopFinished /\ BatchLeft) =>
          /\ submission.made
          /\ Len(submission.tool_outputs) = Len(batch)
    /\ submission.made =>
          /\ idx > Len(batch)
          /\ \A i \in 1..Len(batch) : Count(executed, batch[i].id) = 1
    /\ nSubmitted <= nReceived

\* C20: the loop executes the calls of the batch one after the other in the
\* order of the batch, the i-th output collected is that of the i-th call,
\* and a submission carries the outputs in the order of the batch.
C20_OutputsInRequestOrder ==
    /\ Len(executed) <= Len(batch)
    /\ \A i \in 1..Len(executed) : executed[i] = batch[i].id
    /\ status = "ACTION_REQUIRED" => idx = Len(executed) + 1
    /\ Len(tool_outputs) = Len(executed)
    /\ \A i \in 1..Len(tool_outputs) : tool_outputs[i].tool_call_id = batch[i].id
    /\ submission.made =>
          /\ Len(submission.tool_outputs) = Len(batch)
          /\ \A i \in 1..Len(batch) :
                submission.tool_outputs[i].tool_call_id = batch[i].id

\* a batch of two calls to different tools was submitted, the first one failed
C20_Witness ==
    /\ submission.made
    /\ Len(batch) = 2
    /\ batch[1].function.name # batch[2].function.name
    /\ batch[1].id \in raised
    /\ batch[2].id \notin raised

\* the position of the first tool call of the batch that names an unregistered tool
FirstUnknown(k) == UnknownAt(k) /\ \A j \in 1..(k - 1) : ~UnknownAt(j)

\* C24 as stated: once the handler has left a batch whose k-th call is the
\* first to name an unregistered tool, the calls before position k have been
\* executed, in order, and no call from position k on has been.
C24_ExecutedUpToUnknownCall ==
    BatchLeft =>
        \A k \in 1..Len(batch) :
            FirstUnknown(k) =>
                /\ Len(executed) = k - 1
                /\ \A j \in 1..(k - 1) : executed[j] = batch[j].id
                /\ \A j \in k..Len(batch) : Count(executed, batch[j].id) = 0

C25_MessagesReachCallerList ==
    \A m \in Completed : \E j \in 1..Len(lists[1]) : lists[1][j] = m

DefaultExpire == 900
ExpireChoices == {1, DefaultExpire}

\* assistant_id_or_name values; the first one starts with "asst_"
Keys == {"asst_functic", "helper"}
startswith_asst(key) == key = "asst_functic"

\* assistants the external service may hold
AsstById == [id |-> "asst_functic", name |-> "Functic"]
AsstByName == [id |-> "asst_001", name |-> "asst_functic"]
AsstHelper == [id |-> "asst_002", name |-> "helper"]
AsstHelperTwin == [id |-> "asst_003", name |-> "helper"]
AsstByNameTwin == [id |-> "asst_004", name |-> "asst_functic"]
\* what the service held for "asst_functic" before it was renamed
AsstStale == [id |-> "asst_functic", name |-> "Functic (old)"]
AssistantPool ==
    {AsstById, AsstByName, AsstByNameTwin, AsstHelper, AsstHelperTwin, AsstStale}
NoAssistant == [id |-> None, name |-> None]

ListingChoices ==
    {<<>>, <<AsstByName>>, <<AsstHelper, AsstById, AsstByName>>,
     <<AsstHelperTwin, AsstHelper>>, <<AsstHelper, AsstByNameTwin, AsstByName>>}

CacheKey_Shared(key) == "openai:assistant:asst_functic"

\* cache_key = f"openai:assistant:{assistant_id_or_name}"
CacheKey(key) == "openai:assistant:" \o key
OtherKey == "functic:settings"
CacheKeys == {CacheKey(k) : k \in Keys} \cup {OtherKey}

NoBlob == ""
NoEntry == [blob |-> NoBlob, expires_at |-> 0]

\* assistant.model_dump_json()
model_dump_json(a) == "{\"id\": \"" \o a.id \o "\", \"name\": \"" \o a.name \o "\"}"

\* Assistant.model_validate_json(blob)
model_validate_json(blob) ==
    CHOOSE a \in AssistantPool \cup {NoAssistant} :
        \/ model_dump_json(a) = blob
        \/ a = NoAssistant /\ \A b \in AssistantPool : model_dump_json(b) # blob

\* bool(cache): None is falsy; diskcache.Cache defines __len__, so it is falsy
\* while it stores no item; redis.Redis defines neither __bool__ nor __len__
CacheTruthy(c, kind) ==
    CASE kind = "none" -> FALSE
      [] kind = "diskcache" -> \E k \in CacheKeys : c[k] # NoEntry
      [] OTHER -> TRUE

\* cache.get(cache_key): the stored blob unless absent or expired
CacheGet(c, k, t) ==
    IF c[k] # NoEntry /\ t < c[k].expires_at THEN c[k].blob ELSE NoBlob

\* cache.set(cache_key, blob, expire): expired items are culled, the entry is
\* written whole with its expiry
CacheSet(c, k, blob, expire, t) ==
    [x \in CacheKeys |->
        IF x = k THEN [blob |-> blob, expires_at |-> t + expire]
        ELSE IF c[x] # NoEntry /\ c[x].expires_at <= t THEN NoEntry
        ELSE c[x]]

\* client.beta.assistants.retrieve(id): NoAssistant stands for NotFoundError
Retrieve(l, id) ==
    IF \E i \in 1..Len(l) : l[i].id = id
    THEN l[CHOOSE i \in 1..Len(l) : l[i].id = id]
    ELSE NoAssistant

ScanByName_Last(l, name) ==
    IF \E i \in 1..Len(l) : l[i].name = name
    THEN l[CHOOSE i \in 1..Len(l) :
              /\ l[i].name = name
              /\ \A j \in (i + 1)..Len(l) : l[j].name # name]
    ELSE NoAssistant

\* the for loop over iter_assistants(client): the first one of that name
ScanByName(l, name) ==
    IF \E i \in 1..Len(l) : l[i].name = name
    THEN l[CHOOSE i \in 1..Len(l) :
              /\ l[i].name = name
              /\ \A j \in 1..(i - 1) : l[j].name # name]
    ELSE NoAssistant

CacheLookup_IgnoreForce(c, kind, key, force, t) ==
    IF CacheTruthy(c, kind) THEN CacheGet(c, CacheKey(key), t) ELSE NoBlob

\* lines 25-28: the blob ensure_assistant reads from the cache, NoBlob if it
\* does not read or finds nothing
CacheLookup(c, kind, key, force, t) ==
    IF force = FALSE /\ CacheTruthy(c, kind)
    THEN CacheGet(c, CacheKey(key), t)
    ELSE NoBlob

\* lines 30-45: by id when the key starts with "asst_", else or on NotFoundError
\* by name
Lookup(l, key) ==
    LET assistant == IF startswith_asst(key) THEN Retrieve(l, key) ELSE NoAssistant
    IN  IF assistant = NoAssistant THEN ScanByName(l, key) ELSE assistant

\* lines 51-53: the cache after the call
CacheStore(c, kind, key, assistant, expire, t) ==
    IF CacheTruthy(c, kind)
    THEN CacheSet(c, CacheKey(key), model_dump_json(assistant), expire, t)
    ELSE c

InitEnsure ==
    /\ cacheKind \in {"none", "diskcache", "redis"}
    /\ cache \in {[k \in CacheKeys |-> NoEntry],
                  [k \in CacheKeys |-> IF k = OtherKey
                                       THEN [blob |-> "{}", expires_at |-> DefaultExpire]
                                       ELSE NoEntry],
                  [k \in CacheKeys |-> IF k = CacheKey("asst_functic")
                                       THEN [blob |-> model_dump_json(AsstStale),
                                             expires_at |-> 1]
                                       ELSE NoEntry]}
    /\ now = 0
    /\ calls = <<>>
    /\ listing \in ListingChoices

\* one call ensure_assistant(key, client, cache=cache, expire=expire, force=force)
EnsureAssistant ==
    /\ Len(calls) < MaxCalls
    /\ \E key \in Keys, force \in BOOLEAN, expire \in ExpireChoices :
        LET might_assistant == CacheLookup(cache, cacheKind, key, force, now)
            assistant == Lookup(listing, key)
            call == [key |-> key, force |-> force, expire |-> expire, at |-> now,
                     valid_until |-> IF might_assistant # NoBlob
                                     THEN cache[CacheKey(key)].expires_at
                                     ELSE now + expire]
        IN  IF might_assistant # NoBlob
            THEN /\ calls' = Append(calls, call @@
                       [raised |-> "none", loader |-> FALSE,
                        result |-> model_validate_json(might_assistant)])
                 /\ UNCHANGED cache
            ELSE IF assistant = NoAssistant
            THEN /\ calls' = Append(calls, call @@
                       [raised |-> "ValueError", loader |-> TRUE,
                        result |-> NoAssistant])
                 /\ UNCHANGED cache
            ELSE /\ calls' = Append(calls, call @@
                       [raised |-> "none", loader |-> TRUE, result |-> assistant])
                 /\ cache' = CacheStore(cache, cacheKind, key, assistant, expire, now)
    /\ UNCHANGED <<cacheKind, now, listing>>
    /\ UNCHANGED <<rvars, avars, mvars, runs>>

\* time passes
Tick ==
    /\ now < MaxTime
    /\ now' = now + 1
    /\ UNCHANGED <<cache, cacheKind, calls, listing>>
    /\ UNCHANGED <<rvars, avars, mvars, runs>>

EnsureNext ==
    \/ EnsureAssistant
    \/ Tick

(***************************************************************************)
(* Properties of ensure_assistant                                          *)
(***************************************************************************)
\* C9 as stated: of two successive successful calls with force=False for the
\* same key on a cache backend, the second made before the entry of the first
\* expires, the second does not invoke the loader and returns what the first
\* returned.
C9_SecondCallServedFromCache ==
    \A j \in 2..Len(calls) :
        LET a == calls[j - 1]
            b == calls[j]
        IN  (/\ cacheKind # "none"
             /\ a.key = b.key
             /\ ~a.force /\ ~b.force
             /\ a.raised = "none" /\ b.raised = "none"
             /\ b.at < a.valid_until)
            => (~b.loader /\ b.result = a.result)

\* C10: a call with force=True invokes the loader whatever the cache holds,
\* and what it returns is what the service holds, not the cached value.
C10_ForceAlwaysLoads ==
    \A j \in 1..Len(calls) :
        calls[j].force =>
            /\ calls[j].loader
            /\ calls[j].raised = "none" => calls[j].result = Lookup(listing, calls[j].key)
            /\ calls[j].raised # "none" => Lookup(listing, calls[j].key) = NoAssistant

\* a forced call made while the cache holds a live, different value for the key
C10_Witness ==
    /\ Len(calls) = 2
    /\ cacheKind = "diskcache"
    /\ calls[1].key = "asst_functic" /\ calls[2].key = "asst_functic"
    /\ ~calls[1].force /\ ~calls[1].loader
    /\ calls[1].result = AsstStale
    /\ calls[2].force /\ calls[2].loader
    /\ calls[2].at < calls[1].valid_until
    /\ calls[2].result # calls[1].result

\* the last call, when it loaded the assistant and returned it
LastLoaded ==
    /\ Len(calls) > 0
    /\ calls[Len(calls)].loader
    /\ calls[Len(calls)].raised = "none"

\* C11 as stated: after a successful call that loaded (on a miss or with
\* force) with a cache backend supplied, the cache holds under the key exactly
\* the returned entity, expiring at now+ttl, whatever it held before.
C11_LoadedEntityIsCached ==
    (LastLoaded /\ cacheKind # "none") =>
        LET c == calls[Len(calls)]
        IN  /\ cache[CacheKey(c.key)].blob # NoBlob
            /\ model_validate_json(cache[CacheKey(c.key)].blob) = c.result
            /\ cache[CacheKey(c.key)].expires_at = c.at + c.expire

\* the listed assistants of that name, and whether the direct lookup finds one
NamedAt(key) == {i \in 1..Len(listing) : listing[i].name = key}
FoundById(key) == startswith_asst(key) /\ \E i \in 1..Len(listing) : listing[i].id = key

\* C12: a call that loads and does not find the key as an identifier returns
\* the first listed assistant of that name, and fails (with the not-found
\* ValueError) exactly when no listed assistant has that name.
C12_NotFoundByIdFallsBackToScan ==
    \A j \in 1..Len(calls) :
        LET c == calls[j]
        IN  (c.loader /\ ~FoundById(c.key)) =>
                /\ c.raised = "ValueError" <=> NamedAt(c.key) = {}
                /\ NamedAt(c.key) # {} =>
                      /\ c.raised = "none"
                      /\ \E i \in NamedAt(c.key) :
                            /\ c.result = listing[i]
                            /\ \A k \in NamedAt(c.key) : i <= k

\* the key looks like an identifier, no assistant has that id, two have the name
C12_Witness ==
    /\ Len(calls) > 0
    /\ calls[1].key = "asst_functic"
    /\ calls[1].loader
    /\ ~FoundById("asst_functic")
    /\ Cardinality(NamedAt("asst_functic")) = 2
    /\ calls[1].result = AsstByNameTwin

(***************************************************************************)
(* ensure_assistant called by concurrent runs on one shared cache          *)
(***************************************************************************)
Runs == 1..MaxRuns

\* the expire every run passes: short enough for entries to expire meanwhile
RunExpire == 1

IdleRun ==
    [pc |-> "idle", key |-> None, force |-> FALSE, expire |-> 0,
     assistant |-> NoAssistant, result |-> NoAssistant, loaded |-> FALSE,
     stored |-> NoEntry]

InitRuns == runs = [p \in Runs |-> IdleRun]

\* the runs share a cache backend, and a service on which "helper" may be missing
InitShared ==
    /\ InitEnsure
    /\ cacheKind # "none"
    /\ listing \in {<<AsstByName>>, <<AsstHelper, AsstById, AsstByName>>}

\* lines 23-28 of one call: the cache is read; a hit is returned at once
EnsureBegin(p) ==
    /\ runs[p].pc = "idle"
    /\ \E key \in Keys, force \in BOOLEAN :
          LET might_assistant == CacheLookup(cache, cacheKind, key, force, now)
              call == [IdleRun EXCEPT !.key = key, !.force = force,
                                      !.expire = RunExpire]
          IN  runs' = [runs EXCEPT ![p] =
                  IF might_assistant # NoBlob
                  THEN [call EXCEPT !.pc = "returned",
                                    !.result = model_validate_json(might_assistant)]
                  ELSE [call EXCEPT !.pc = "loading"]]
    /\ UNCHANGED evars
    /\ UNCHANGED <<rvars, avars, mvars>>

\* lines 30-49: the requests to the service, made outside any lock
EnsureLoad(p) ==
    /\ runs[p].pc = "loading"
    /\ LET assistant == Lookup(listing, runs[p].key)
       IN  runs' = [runs EXCEPT ![p] =
               IF assistant = NoAssistant
               THEN [@ EXCEPT !.pc = "raised"]
               ELSE [@ EXCEPT !.pc = "storing", !.assistant = assistant,
                              !.loaded = TRUE]]
    /\ UNCHANGED evars
    /\ UNCHANGED <<rvars, avars, mvars>>

\* lines 51-55: cache.set, one operation of the backend, then the return
EnsureStore(p) ==
    /\ runs[p].pc = "storing"
    /\ cache' = CacheStore(cache, cacheKind, runs[p].key, runs[p].assistant,
                           runs[p].expire, now)
    /\ runs' = [runs EXCEPT ![p] =
           [@ EXCEPT !.pc = "returned", !.result = runs[p].assistant,
                     !.stored = IF CacheTruthy(cache, cacheKind)
                                THEN [blob |-> model_dump_json(runs[p].assistant),
                                      expires_at |-> now + runs[p].expire]
                                ELSE NoEntry]]
    /\ UNCHANGED <<cacheKind, now, calls, listing>>
    /\ UNCHANGED <<rvars, avars, mvars>>

ConcurrentNext ==
    \/ \E p \in Runs : EnsureBegin(p)
    \/ \E p \in Runs : EnsureLoad(p)
    \/ \E p \in Runs : EnsureStore(p)
    \/ Tick

(***************************************************************************)
(* Properties of concurrent ensure_assistant calls                         *)
(***************************************************************************)
\* an assistant that answers to the key: by id or by name
EntityOf(a, key) == a # NoAssistant /\ (a.id = key \/ a.name = key)

\* C22: whatever the interleaving, a call that returned holds an assistant
\* that answers to its own key; the entry of a key is absent or is exactly one
\* whole entry (blob of an assistant of that key, with its expiry) that a call
\* for that key stored, or the entry the cache held from the start; the entry
\* of a foreign key is never written.
C22_ConcurrentEnsureKeepsKeysApart ==
    /\ \A p \in Runs :
          runs[p].pc = "returned" => EntityOf(runs[p].result, runs[p].key)
    /\ \A k \in Keys :
          \/ cache[CacheKey(k)] = NoEntry
          \/ /\ cache[CacheKey(k)] = [blob |-> model_dump_json(AsstStale), expires_at |-> 1]
             /\ EntityOf(AsstStale, k)
          \/ \E p \in Runs :
                /\ runs[p].key = k
                /\ runs[p].pc = "returned"
                /\ runs[p].loaded
                /\ cache[CacheKey(k)] = runs[p].stored
                /\ EntityOf(model_validate_json(cache[CacheKey(k)].blob), k)
    /\ cache[OtherKey] \in {NoEntry, [blob |-> "{}", expires_at |-> DefaultExpire]}

\* two runs loaded different keys at the same time and both stored; a third
\* party's entry is still there
C22_Witness ==
    /\ \E p, q \in Runs :
          /\ runs[p].key = "asst_functic" /\ runs[q].key = "helper"
          /\ runs[p].pc = "returned" /\ runs[q].pc = "returned"
          /\ runs[p].loaded /\ runs[q].loaded
          /\ cache[CacheKey("asst_functic")] = runs[p].stored
          /\ cache[CacheKey("helper")] = runs[q].stored
    /\ cache[OtherKey] # NoEntry

(***************************************************************************)
(* The HTTP service of functic/app.py: lifespan                            *)
(***************************************************************************)
\* modules that FUNCTIC_FUNCTIONS may name
ModCurrencies == "functic.functions.assorted.currencies"
ModRates == "plugins.rates"
ModLegacy == "plugins.legacy"
Modules == {ModCurrencies, ModRates, ModLegacy}

\* classes as inspect.getmembers yields them: __name__, __module__,
\* issubclass(_cls, FuncticBaseModel) and functic_config.name
ClsFuncticBaseModel ==
    [cls |-> "FuncticBaseModel", module |-> "functic._functic", functic |-> TRUE,
     name |-> None]
ClsFuncticConfig ==
    [cls |-> "FuncticConfig", module |-> "functic._functic", functic |-> FALSE,
     name |-> None]
ClsGetCurrencies ==
    [cls |-> "GetCurrencies", module |-> ModCurrencies, functic |-> TRUE,
     name |-> "get_currencies"]
ClsGetCurrenciesResponse ==
    [cls |-> "GetCurrenciesResponse", module |-> ModCurrencies, functic |-> FALSE,
     name |-> None]
ClsGetRates ==
    [cls |-> "GetRates", module |-> ModRates, functic |-> TRUE, name |-> "get_rates"]
ClsGetCurrenciesLegacy ==
    [cls |-> "GetCurrenciesLegacy", module |-> ModLegacy, functic |-> TRUE,
     name |-> "get_currencies"]
NoClass == [cls |-> None, module |-> None, functic |-> FALSE, name |-> None]

\* inspect.getmembers(_mod, inspect.isclass): every class bound in the module,
\* imported ones included, sorted by name
getmembers(mod) ==
    CASE mod = ModCurrencies ->
            <<ClsFuncticBaseModel, ClsFuncticConfig, ClsGetCurrencies,
              ClsGetCurrenciesResponse>>
      [] mod = ModRates -> <<ClsFuncticBaseModel, ClsGetCurrencies, ClsGetRates>>
      [] mod = ModLegacy ->
            <<ClsFuncticBaseModel, ClsGetCurrenciesLegacy, ClsGetRates>>

\* FUNCTIC_FUNCTIONS: a list of module names, repetitions allowed
SettingsChoices == UNION {[1..n -> Modules] : n \in 1..MaxModules}

is_functic_class_AnyModule(mod, c) == c.functic

\* the filter of lifespan: defined in the module and a FuncticBaseModel subclass
is_functic_class(mod, c) == c.module = mod /\ c.functic

\* `name in functic_functions` on the dict, kept in insertion order
Has(fns, name) == \E i \in 1..Len(fns) : fns[i].name = name

\* functic_functions[name]; NoClass stands for the KeyError of a missing key
Get(fns, name) ==
    IF Has(fns, name) THEN fns[CHOOSE i \in 1..Len(fns) : fns[i].name = name]
    ELSE NoClass

Register_KeepFirst(fns, c) == IF Has(fns, c.name) THEN fns ELSE Append(fns, c)

\* functic_functions[_func_name] = _cls: a present key keeps its position
Register(fns, c) ==
    IF Has(fns, c.name)
    THEN [i \in 1..Len(fns) |-> IF fns[i].name = c.name THEN c ELSE fns[i]]
    ELSE Append(fns, c)

EmptyLoad == [functions |-> <<>>, warnings |-> <<>>, registrations |-> <<>>]

\* the body of the inner for loop for one member of one module;
\* raise_if_invalid never raises since is_config_valid returns True
LoadClass(st, mod, c) ==
    IF is_functic_class(mod, c)
    THEN [functions |-> Register(st.functions, c),
          warnings |-> IF Has(st.functions, c.name)
                       THEN Append(st.warnings, c.name)
                       ELSE st.warnings,
          registrations |-> Append(st.registrations,
                                   [module |-> mod, cls |-> c.cls, name |-> c.name])]
    ELSE st

RECURSIVE LoadMembers(_, _, _, _)
\* for cls_name, _cls in inspect.getmembers(_mod, inspect.isclass)
LoadMembers(st, mod, members, i) ==
    IF i > Len(members) THEN st
    ELSE LoadMembers(LoadClass(st, mod, members[i]), mod, members, i + 1)

RECURSIVE LoadModules(_, _, _)
\* for module_name in app_settings.FUNCTIC_FUNCTIONS
LoadModules(st, names, k) ==
    IF k > Len(names) THEN st
    ELSE LoadModules(LoadMembers(st, names[k], getmembers(names[k]), 1), names, k + 1)

NoResponse ==
    [op |-> None, names |-> <<>>, ids |-> <<>>, status_code |-> 0, detail |-> "",
     data |-> <<>>, result |-> "", tool_outputs |-> <<>>]

InitApp ==
    /\ app_settings \in SettingsChoices
    /\ phase = "startup"
    /\ functic_functions = <<>>
    /\ warnings = <<>>
    /\ registrations = <<>>
    /\ reply = NoResponse
    /\ req_parsed = <<>>
    /\ req_executed = <<>>

\* lifespan up to its yield: the registry is built and put on app.state
Lifespan ==
    /\ phase = "startup"
    /\ LET st == LoadModules(EmptyLoad, app_settings, 1)
       IN  /\ functic_functions' = st.functions
           /\ warnings' = st.warnings
           /\ registrations' = st.registrations
    /\ phase' = "serving"
    /\ UNCHANGED <<app_settings, reply, req_parsed, req_executed>>
    /\ UNCHANGED <<rvars, evars, mvars, runs>>

(***************************************************************************)
(* The HTTP service of functic/app.py: the endpoints of create_app         *)
(***************************************************************************)
\* function names a client may ask for: two that modules define, one that none does
AppRequestNames == {"get_currencies", "get_rates", "get_stock_price"}

\* the arguments a client sends: conforming, and of the wrong type
AppArgs == {ArgValid, ArgBadType}

RECURSIVE ToolCallsOfLen(_)
ToolCallsOfLen(n) ==
    IF n = 0 THEN {<<>>}
    ELSE {Append(b, [id |-> CallId(0, n),
                     function |-> [name |-> nm, arguments |-> a]]) :
            b \in ToolCallsOfLen(n - 1), nm \in AppRequestNames, a \in AppArgs}

\* RequiredActionSubmitToolOutputs.tool_calls of a request body
ToolCallBatches == UNION {ToolCallsOfLen(n) : n \in 1..MaxBatch}

\* await functic_obj.execute(): as sync_execute, the content kept on the instance
execute(name, raises) == sync_execute(name, raises)

\* functic_obj.content_parsed: the rendered content
content_parsed(content) == parse_content(content)

\* functic_obj.tool_output: the content rendered under the call id that was set
tool_output(content, tool_call_id) ==
    parse_function_return_as_assistant_tool_output(content, tool_call_id)

NamesOf(tcs) == [i \in 1..Len(tcs) |-> tcs[i].function.name]
IdsOf(tcs) == [i \in 1..Len(tcs) |-> tcs[i].id]

FirstMissing_Lazy(fns, tcs) == 0

FirstMissing_HeadOnly(fns, tcs) == IF Has(fns, tcs[1].function.name) THEN 0 ELSE 1

\* the first for loop of api_assistant_tool_calls: the position of the first
\* tool call whose name is not registered, 0 when all are
FirstMissing(fns, tcs) ==
    IF \A i \in 1..Len(tcs) : Has(fns, tcs[i].function.name) THEN 0
    ELSE CHOOSE i \in 1..Len(tcs) :
            /\ ~Has(fns, tcs[i].function.name)
            /\ \A j \in 1..(i - 1) : Has(fns, tcs[j].function.name)

AppendToolOutput_Front(outs, o) == <<o>> \o outs

\* tool_outputs.append(functic_obj.tool_output)
AppendToolOutput(outs, o) == Append(outs, o)

NoRun == [parsed |-> <<>>, executed |-> <<>>, tool_outputs |-> <<>>, exc |-> "none"]

\* one iteration of the second for loop of api_assistant_tool_calls
RunToolCall(fns, tc, raises, acc) ==
    LET functic_model == Get(fns, tc.function.name)
        exc == from_args_str(functic_model.name, tc.function.arguments)
    IN  IF functic_model = NoClass THEN [acc EXCEPT !.exc = "KeyError"]
        ELSE IF exc # "none"
        THEN [acc EXCEPT !.parsed = Append(@, tc.id), !.exc = exc]
        ELSE [acc EXCEPT
                !.parsed = Append(@, tc.id),
                !.executed = Append(@, tc.id),
                !.tool_outputs =
                    AppendToolOutput(@, tool_output(execute(functic_model.name, raises),
                                                    tc.id))]

RECURSIVE RunToolCalls(_, _, _, _, _)
\* the second for loop: it ends at the first exception
RunToolCalls(fns, tcs, rs, i, acc) ==
    IF i > Len(tcs) \/ acc.exc # "none" THEN acc
    ELSE RunToolCalls(fns, tcs, rs, i + 1, RunToolCall(fns, tcs[i], rs[i], acc))

\* an HTTPException(404), raised before anything is parsed
NotFound(op, names, ids, detail) ==
    /\ reply' = [NoResponse EXCEPT !.op = op, !.names = names, !.ids = ids,
                                      !.status_code = 404, !.detail = detail]
    /\ req_parsed' = <<>>
    /\ req_executed' = <<>>

\* the answer of a handler that ran the calls: 500 when an exception left it
Answer(op, names, ids, run, result, outs) ==
    /\ reply' =
          IF run.exc # "none"
          THEN [NoResponse EXCEPT !.op = op, !.names = names, !.ids = ids,
                                  !.status_code = 500, !.detail = run.exc]
          ELSE [NoResponse EXCEPT !.op = op, !.names = names, !.ids = ids,
                                  !.status_code = 200, !.result = result,
                                  !.tool_outputs = outs]
    /\ req_parsed' = run.parsed
    /\ req_executed' = run.executed

\* GET /functions
api_list_functions ==
    /\ phase = "serving"
    /\ reply' = [NoResponse EXCEPT
                      !.op = "list_functions", !.status_code = 200,
                      !.data = [i \in 1..Len(functic_functions) |->
                                    functic_functions[i].name]]
    /\ req_parsed' = <<>>
    /\ req_executed' = <<>>
    /\ UNCHANGED <<app_settings, phase, functic_functions, warnings, registrations>>
    /\ UNCHANGED <<rvars, evars, mvars, runs>>

api_retrieve_function_Pop ==
    /\ phase = "serving"
    /\ \E function_name \in AppRequestNames :
          /\ Has(functic_functions, function_name)
          /\ reply' = [NoResponse EXCEPT
                            !.op = "retrieve_function", !.names = <<function_name>>,
                            !.status_code = 200,
                            !.data = <<Get(functic_functions, function_name).name>>]
          /\ functic_functions' =
                SelectSeq(functic_functions, LAMBDA c : c.name # function_name)
    /\ req_parsed' = <<>>
    /\ req_executed' = <<>>
    /\ UNCHANGED <<app_settings, phase, warnings, registrations>>
    /\ UNCHANGED <<rvars, evars, mvars, runs>>

\* GET /functions/{function_name}
api_retrieve_function ==
    /\ phase = "serving"
    /\ \E function_name \in AppRequestNames :
          IF ~Has(functic_functions, function_name)
          THEN NotFound("retrieve_function", <<function_name>>, <<>>,
                        "Function not found")
          ELSE /\ reply' = [NoResponse EXCEPT
                                 !.op = "retrieve_function",
                                 !.names = <<function_name>>, !.status_code = 200,
                                 !.data = <<Get(functic_functions, function_name).name>>]
               /\ req_parsed' = <<>>
               /\ req_executed' = <<>>
    /\ UNCHANGED <<app_settings, phase, functic_functions, warnings, registrations>>
    /\ UNCHANGED <<rvars, evars, mvars, runs>>

\* POST /functions/invoke; the request has no call id, "invoke" stands for it
api_invoke_function ==
    /\ phase = "serving"
    /\ \E name \in AppRequestNames, arguments \in AppArgs, raises \in BOOLEAN :
          LET tc == [id |-> "invoke", function |-> [name |-> name, arguments |-> arguments]]
              run == RunToolCall(functic_functions, tc, raises, NoRun)
          IN  IF ~Has(functic_functions, name)
              THEN NotFound("invoke_function", <<name>>, <<>>, "Function not found")
              ELSE Answer("invoke_function", <<name>>, <<>>, run,
                          IF run.exc = "none"
                          THEN content_parsed(execute(Get(functic_functions, name).name,
                                                      raises))
                          ELSE "",
                          <<>>)
    /\ UNCHANGED <<app_settings, phase, functic_functions, warnings, registrations>>
    /\ UNCHANGED <<rvars, evars, mvars, runs>>

\* POST /assistant/tool_call: the body of the answer is the one ToolOutput
api_assistant_tool_call ==
    /\ phase = "serving"
    /\ \E tcs \in ToolCallsOfLen(1), raises \in BOOLEAN :
          LET tc == tcs[1]
              run == RunToolCall(functic_functions, tc, raises, NoRun)
          IN  IF ~Has(functic_functions, tc.function.name)
              THEN NotFound("assistant_tool_call", NamesOf(tcs), IdsOf(tcs),
                            "Function not found")
              ELSE Answer("assistant_tool_call", NamesOf(tcs), IdsOf(tcs), run, "",
                          run.tool_outputs)
    /\ UNCHANGED <<app_settings, phase, functic_functions, warnings, registrations>>
    /\ UNCHANGED <<rvars, evars, mvars, runs>>

\* POST /assistant/tool_calls; the callables either all work or all fail
\* (their upstream service is down) while the request is handled
api_assistant_tool_calls ==
    /\ phase = "serving"
    /\ \E tcs \in ToolCallBatches, raises \in BOOLEAN :
          LET rs == [i \in 1..Len(tcs) |-> raises]
              missing == FirstMissing(functic_functions, tcs)
              run == RunToolCalls(functic_functions, tcs, rs, 1, NoRun)
          IN  IF missing # 0
              THEN NotFound("assistant_tool_calls", NamesOf(tcs), IdsOf(tcs),
                            "Function '" \o tcs[missing].function.name \o "' not found")
              ELSE Answer("assistant_tool_calls", NamesOf(tcs), IdsOf(tcs), run, "",
                          run.tool_outputs)
    /\ UNCHANGED <<app_settings, phase, functic_functions, warnings, registrations>>
    /\ UNCHANGED <<rvars, evars, mvars, runs>>

AppNext ==
    \/ Lifespan
    \/ api_list_functions
    \/ api_retrieve_function
    \/ api_invoke_function
    \/ api_assistant_tool_call
    \/ api_assistant_tool_calls

(***************************************************************************)
(* Properties of the HTTP service                                          *)
(***************************************************************************)
\* positions of the registrations made under a name, and of its registry entries
RegistrationsOf(name) == {i \in 1..Len(registrations) : registrations[i].name = name}
EntriesOf(name) == {i \in 1..Len(functic_functions) : functic_functions[i].name = name}
WarningsOf(name) == {i \in 1..Len(warnings) : warnings[i] = name}
RegisteredNames == {functic_functions[i].name : i \in 1..Len(functic_functions)}

\* C13: once lifespan has run, every name registered at least once has exactly
\* one registry entry, namely the last definition registered under it, and one
\* warning was logged per registration after the first (so exactly one when two
\* definitions share the name); a name never registered has no entry.
C13_LastRegistrationWins ==
    phase = "serving" =>
        \A r \in 1..Len(registrations) :
            LET name == registrations[r].name
                last == CHOOSE i \in RegistrationsOf(name) :
                            \A j \in RegistrationsOf(name) : j <= i
            IN  /\ Cardinality(EntriesOf(name)) = 1
                /\ \A e \in EntriesOf(name) :
                      functic_functions[e].cls = registrations[last].cls
                /\ Cardinality(WarningsOf(name)) =
                      Cardinality(RegistrationsOf(name)) - 1

\* two different definitions named get_currencies were registered
C13_Witness ==
    /\ phase = "serving"
    /\ Cardinality(RegistrationsOf("get_currencies")) = 2
    /\ registrations[1].cls = "GetCurrencies"
    /\ Get(functic_functions, "get_currencies").cls = "GetCurrenciesLegacy"
    /\ warnings = <<"get_currencies">>

\* C16: a request of get_tool, invoke, tool call or batch of tool calls that
\* names a function missing from the registry is answered 404, and no
\* argument was parsed and no tool executed for it.
C16_UnknownNameIsNotFound ==
    (/\ reply.op \in {"retrieve_function", "invoke_function", "assistant_tool_call",
                      "assistant_tool_calls"}
     /\ \E i \in 1..Len(reply.names) : reply.names[i] \notin RegisteredNames)
    => /\ reply.status_code = 404
       /\ req_parsed = <<>>
       /\ req_executed = <<>>

\* a batch whose first name is registered and whose second is not
C16_Witness ==
    /\ reply.op = "assistant_tool_calls"
    /\ Len(reply.names) = 2
    /\ reply.names[1] \in RegisteredNames
    /\ reply.names[2] \notin RegisteredNames
    /\ reply.status_code = 404

\* C17: after startup no step changes the registry.
C17_RegistryReadOnlyAfterStartup ==
    [][phase = "serving" => functic_functions' = functic_functions]_vars

\* a batch of two tool calls was executed against a registry of two entries
C17_Witness ==
    /\ phase = "serving"
    /\ Len(functic_functions) = 2
    /\ reply.op = "assistant_tool_calls"
    /\ reply.status_code = 200
    /\ Len(req_executed) = 2

\* the classes a module defines itself that conform to FuncticBaseModel
LocalFuncticClasses(mod) ==
    {c \in {getmembers(mod)[j] : j \in 1..Len(getmembers(mod))} :
        c.module = mod /\ c.functic}

\* C18: every registration made through a module is of a conforming class that
\* this module defines, every such class of a configured module is registered,
\* and so the registry never holds a class that a configured module only imports.
C18_OnlyLocalConformingClasses ==
    phase = "serving" =>
        /\ \A r \in 1..Len(registrations) :
              \E c \in LocalFuncticClasses(registrations[r].module) :
                  /\ c.cls = registrations[r].cls
                  /\ \E k \in 1..Len(app_settings) :
                        app_settings[k] = registrations[r].module
        /\ \A k \in 1..Len(app_settings) :
              \A c \in LocalFuncticClasses(app_settings[k]) :
                  \E r \in 1..Len(registrations) :
                      /\ registrations[r].module = app_settings[k]
                      /\ registrations[r].cls = c.cls
        /\ \A e \in 1..Len(functic_functions) :
              /\ functic_functions[e].functic
              /\ \E k \in 1..Len(app_settings) :
                    app_settings[k] = functic_functions[e].module

\* only the module that re-exports GetCurrencies is configured: it is not registered
C18_Witness ==
    /\ phase = "serving"
    /\ app_settings = <<ModRates>>
    /\ RegisteredNames = {"get_rates"}
    /\ \E j \in 1..Len(getmembers(ModRates)) : getmembers(ModRates)[j] = ClsGetCurrencies

\* the batch endpoint parses and executes in request order and answers with
\* the outputs in that order
EndpointOutputsInRequestOrder ==
    reply.op = "assistant_tool_calls" =>
        /\ Len(req_parsed) <= Len(reply.ids)
        /\ \A i \in 1..Len(req_parsed) : req_parsed[i] = reply.ids[i]
        /\ Len(req_executed) <= Len(req_parsed)
        /\ \A i \in 1..Len(req_executed) : req_executed[i] = reply.ids[i]
        /\ reply.status_code = 200 =>
              /\ Len(reply.tool_outputs) = Len(reply.ids)
              /\ req_executed = reply.ids
              /\ \A i \in 1..Len(reply.ids) :
                    reply.tool_outputs[i].tool_call_id = reply.ids[i]

\* positions of the last batch request whose name is not registered
UnknownPositions == {i \in 1..Len(reply.names) : reply.names[i] \notin RegisteredNames}

\* C23: when any name of a batch request is unknown, at whatever position,
\* the answer is the 404 that names the first unknown function, and no call
\* of the batch was parsed or executed, those before the unknown one included.
C23_BatchIsAllOrNothing ==
    (reply.op = "assistant_tool_calls" /\ UnknownPositions # {}) =>
        /\ reply.status_code = 404
        /\ \E k \in UnknownPositions :
              /\ \A j \in UnknownPositions : k <= j
              /\ reply.detail = "Function '" \o reply.names[k] \o "' not found"
        /\ reply.tool_outputs = <<>>
        /\ \A i \in 1..Len(reply.ids) :
              /\ Count(req_parsed, reply.ids[i]) = 0
              /\ Count(req_executed, reply.ids[i]) = 0

\* the unknown name comes last, after a call that could have been executed
C23_Witness ==
    /\ reply.op = "assistant_tool_calls"
    /\ reply.names = <<"get_rates", "get_stock_price">>
    /\ "get_rates" \in RegisteredNames
    /\ reply.detail = "Function 'get_stock_price' not found"
    /\ req_executed = <<>>

(***************************************************************************)
(* FuncticBaseModel as a class: the derived schemas and from_args_str      *)
(***************************************************************************)
\* argument schemas (the fields of the model) a tool definition may have
SchemaChoices == {{}, {"base"}, {"base", "symbols"}}

\* FuncticConfig.description is required, and may be the empty string
DescriptionChoices == {"", "Get the currency rates."}

\* the classes whose schemas are derived: config and model fields
Owners ==
    {[name |-> "get_currencies", description |-> ds, fields |-> f] :
        ds \in DescriptionChoices, f \in SchemaChoices}

\* the JSON schema of the model fields, every field having a default
json_schema(fields) == [type |-> "object", properties |-> fields, required |-> {}]

\* functic.utils.function_definition.from_base_model: the generic definition
function_definition(owner) ==
    [name |-> owner.name, description |-> owner.description,
     parameters |-> json_schema(owner.fields), strict |-> None]

\* ChatCompletionTool.model_validate({"function": owner.function_definition})
chat_completion_tool(owner) ==
    [type |-> "function", function |-> function_definition(owner)]

\* functic.utils.function_tool.from_base_model: the assistant-style tool
function_tool(owner) ==
    [type |-> "function", function |-> function_definition(owner)]

\* the fields of a function definition that a dump may leave out
OptionalText == {"description", "strict"}

exclude_none_Falsy(fd) ==
    [k \in {k \in DOMAIN fd : k \in OptionalText => fd[k] \notin {None, ""}} |-> fd[k]]

\* exclude_none=True on the nested function definition: None fields are left out
exclude_none(fd) ==
    [k \in {k \in DOMAIN fd : k \in OptionalText => fd[k] # None} |-> fd[k]]

\* BaseModel.model_dump(exclude_none=True) of a tool: a plain dict
model_dump(tool) == [type |-> tool.type, function |-> exclude_none(tool.function)]

\* owner.chat_completion_tool.model_dump(exclude_none=True)
chat_completion_tool_param(owner) == model_dump(chat_completion_tool(owner))

\* owner.function_tool.model_dump(exclude_none=True)
function_tool_param(owner) == model_dump(function_tool(owner))

NotDerived == [accessed |-> FALSE]

InitModel ==
    /\ tool_def \in Owners
    /\ derived = NotDerived
    /\ parses = <<>>

\* the five class properties are read, each descriptor computing its value anew
Derive ==
    /\ derived' = [accessed |-> TRUE,
                   owner |-> tool_def,
                   function_definition |-> function_definition(tool_def),
                   chat_completion_tool |-> chat_completion_tool(tool_def),
                   chat_completion_tool_param |-> chat_completion_tool_param(tool_def),
                   function_tool |-> function_tool(tool_def),
                   function_tool_param |-> function_tool_param(tool_def)]
    /\ UNCHANGED <<tool_def, parses>>
    /\ UNCHANGED <<rvars, evars, avars, runs>>

\* the argument schema of the class is changed (fields added or removed)
ChangeSchema ==
    /\ \E f \in SchemaChoices :
          /\ f # tool_def.fields
          /\ tool_def' = [tool_def EXCEPT !.fields = f]
    /\ UNCHANGED <<derived, parses>>
    /\ UNCHANGED <<rvars, evars, avars, runs>>

\* cls.from_args_str(args_str): what it raised, "none" for a validated instance
FromArgsStr ==
    /\ Len(parses) < MaxParses
    /\ \E args_str \in RawArgs :
          parses' = Append(parses,
                           [args_str |-> args_str,
                            result |-> from_args_str(tool_def.name, args_str)])
    /\ UNCHANGED <<tool_def, derived>>
    /\ UNCHANGED <<rvars, evars, avars, runs>>

ModelNext ==
    \/ Derive
    \/ ChangeSchema
    \/ FromArgsStr

(***************************************************************************)
(* Properties of FuncticBaseModel                                          *)
(***************************************************************************)
\* C14 as stated: an empty or whitespace-only argument string parses to what
\* the empty JSON object parses to.
C14_BlankParsesAsEmptyObject ==
    \A i \in 1..Len(parses) :
        parses[i].args_str \in {"", " "} =>
            parses[i].result = from_args_str(tool_def.name, ArgEmptyObject)

\* name, description and parameters as a representation carries them
ContentOf(fd) == [k \in DOMAIN fd \cap {"name", "description", "parameters"} |-> fd[k]]

\* C15: the four derived representations carry the name, description and
\* parameters of the generic function definition, which are those of the
\* class they were derived from at that moment.
C15_DerivedRepresentationsAgree ==
    derived.accessed =>
        LET generic == ContentOf(derived.function_definition)
        IN  /\ generic = [name |-> derived.owner.name,
                          description |-> derived.owner.description,
                          parameters |-> json_schema(derived.owner.fields)]
            /\ ContentOf(derived.chat_completion_tool.function) = generic
            /\ ContentOf(derived.chat_completion_tool_param.function) = generic
            /\ ContentOf(derived.function_tool.function) = generic
            /\ ContentOf(derived.function_tool_param.function) = generic

\* derived again after the schema changed, for a tool with an empty description
C15_Witness ==
    /\ derived.accessed
    /\ derived.owner = tool_def
    /\ tool_def.fields = {"base", "symbols"}
    /\ tool_def.description = ""
    /\ "strict" \notin DOMAIN derived.function_tool_param.function
    /\ "strict" \in DOMAIN derived.function_tool.function

(***************************************************************************)
(* Specifications                                                          *)
(***************************************************************************)
IdleModel ==
    /\ tool_def = [name |-> "get_currencies", description |-> "", fields |-> {}]
    /\ derived = NotDerived
    /\ parses = <<>>

IdleApp ==
    /\ app_settings = <<>>
    /\ phase = "startup"
    /\ functic_functions = <<>>
    /\ warnings = <<>>
    /\ registrations = <<>>
    /\ reply = NoResponse
    /\ req_parsed = <<>>
    /\ req_executed = <<>>

IdleEnsure ==
    /\ cacheKind = "none"
    /\ cache = [k \in CacheKeys |-> NoEntry]
    /\ now = 0
    /\ calls = <<>>
    /\ listing = <<>>

Init == InitResolver /\ InitMessages /\ IdleEnsure /\ IdleApp /\ IdleModel /\ InitRuns

Spec == Init /\ [][Next]_vars

\* the stream keeps delivering events, the loop and the service keep answering
FairSpec == Spec /\ WF_vars(Next)

EnsureInit == InitEnsure /\ InitResolver /\ IdleMessages /\ IdleApp /\ IdleModel /\ InitRuns

EnsureSpec == EnsureInit /\ [][EnsureNext]_vars

AppInit == InitApp /\ InitResolver /\ IdleMessages /\ IdleEnsure /\ IdleModel /\ InitRuns

AppSpec == AppInit /\ [][AppNext]_vars

ModelInit == InitModel /\ InitResolver /\ IdleMessages /\ IdleEnsure /\ IdleApp /\ InitRuns

ModelSpec == ModelInit /\ [][ModelNext]_vars

ConcurrentInit == InitShared /\ InitRuns /\ InitResolver /\ IdleMessages /\ IdleApp /\ IdleModel

ConcurrentSpec == ConcurrentInit /\ [][ConcurrentNext]_vars

====
